---- MODULE Spec2Model ----
(***************************************************************************)
(* Model of the scraping job orchestrator (app/services/scraping_service.py *)
(* and its API glue in app/api/scraping.py) and of the rating engine       *)
(* (app/services/rating_service.py) of the legal dashboard.                *)
(*                                                                         *)
(* Time is counted in whole seconds.  Scores are exact integers counted in *)
(* units of 1/100000 (criterion scores in thousandths times weights in     *)
(* hundredths).                                                            *)
(***************************************************************************)
EXTENDS Integers, Sequences, FiniteSets, TLC

VARIABLES
    now,            \* wall clock, seconds
    jobs,           \* every ScrapingJob object created so far, by job id
    active_jobs,    \* keys of ScrapingService.active_jobs (the registry)
    task,           \* position of each job's background task
    db_jobs,        \* table scraping_jobs
    db_items,       \* table scraped_items
    db_up,          \* whether the sqlite database accepts reads and writes
    fetch_log,      \* per job: how many responses of each class came back
    last_stop,      \* the latest POST /stop/{job_id} and its outcome
    cleanup_call,   \* the latest cleanup_old_jobs call: its argument, and a
                    \* bit that flips with every call
    rating_results, \* table rating_results, in insertion order
    rating_history, \* table rating_history, in insertion order
    rating_call,    \* the latest rate_item call: how many calls were made,
                    \* its arguments and what it returned
    reeval_call,    \* the latest re_evaluate_item call: its argument, when it
                    \* was made, what it returned, and a bit that flips with
                    \* every call
    summary_call,   \* the latest get_rating_summary call: what it returned,
                    \* and a bit that flips with every call
    sweep           \* the bulk rating sweeps: the flag background_rating_running,
                    \* the outcome of the latest background cycle and of the
                    \* latest POST /rating/rate-all

apiVars == <<last_stop, cleanup_call, sweep>>

ratingVars == <<rating_results, rating_history, rating_call, reeval_call, summary_call>>

vars == <<now, jobs, active_jobs, task, db_jobs, db_items, db_up, fetch_log, apiVars, ratingVars>>

----------------------------------------------------------------------------
(* Bounds of the model *)

MaxJobs == 2
MaxUrls == 2
MaxSecs == 1
MaxDays == 1

(* Program constants *)

SecondsPerDay == 86400
MinContentLength == 50
HttpOk == 200

Urls == {"u1", "u2"}
Delays == {0, 1}
CleanupDays == {0, 1}

None == {}

JobIds == 1..MaxJobs

RECURSIVE SeqsUpTo(_)
SeqsUpTo(n) ==
    IF n = 0 THEN {<<>>}
    ELSE LET shorter == SeqsUpTo(n - 1)
         IN shorter \cup {Append(s, u) : s \in {t \in shorter : Len(t) = n - 1}, u \in Urls}

UrlLists == SeqsUpTo(MaxUrls)

(* The three URLs of scenario A and the five URLs of scenario D *)
ScenarioAUrls == <<"u1", "u2", "u1">>

ScenarioDUrls == <<"u1", "u2", "u1", "u2", "u1">>

TerminalStatuses == {"completed", "failed", "stopped"}

----------------------------------------------------------------------------
(* What the network can answer to one GET *)

Http(status, html, len) ==
    [kind |-> "response", status |-> status, html |-> html, content_len |-> len]

Timeout == [kind |-> "timeout", status |-> 0, html |-> FALSE, content_len |-> 0]

ConnError == [kind |-> "conn_error", status |-> 0, html |-> FALSE, content_len |-> 0]

Responses ==
    { Http(200, TRUE, 1200), Http(200, TRUE, 50), Http(200, TRUE, 49),
      Http(200, FALSE, 1200), Http(203, TRUE, 1200), Http(404, TRUE, 1200),
      Timeout, ConnError }

PlainResponses == { Http(200, TRUE, 1200), Http(404, TRUE, 1200) }

(* The class of a response, for the record of what each job was answered:
   no usable answer (no answer, a status outside 2xx, not HTML), a page
   below 50 characters, a page answered with status 200, a page answered
   with another 2xx status. *)
ResponseClasses == {"fetch_failed", "short", "page_200", "page_2xx"}

ResponseClass(resp) ==
    IF resp.kind # "response" \/ resp.status < 200 \/ resp.status > 299 \/ ~resp.html
    THEN "fetch_failed"
    ELSE IF resp.content_len < 50 THEN "short"
    ELSE IF resp.status = 200 THEN "page_200"
    ELSE "page_2xx"

(* _generate_item_id: second-resolution timestamp plus a hash of the URL *)
_generate_item_id(url, t) == <<t, url>>

scrape_url_AnyLength(url, job_id, resp, t) ==
    IF resp.kind # "response" THEN None
    ELSE IF resp.status # HttpOk THEN None
    ELSE IF ~resp.html THEN None
    ELSE {[id |-> _generate_item_id(url, t), url |-> url, job_id |-> job_id,
           timestamp |-> t, rating_score |-> 0, processing_status |-> "completed"]}

(* scrape_url: the item built from a response, or None.  An Optional value
   is a set with at most one element. *)
scrape_url(url, job_id, resp, t) ==
    IF resp.kind # "response" THEN None
    ELSE IF resp.status # HttpOk THEN None
    ELSE IF ~resp.html THEN None
    ELSE IF resp.content_len < MinContentLength THEN None
    ELSE {[id |-> _generate_item_id(url, t), url |-> url, job_id |-> job_id,
           timestamp |-> t, rating_score |-> 0, processing_status |-> "completed"]}

(* _store_scraped_item: INSERT OR REPLACE by primary key; a failed write is
   logged and swallowed *)
_store_scraped_item(db, item, ok) ==
    IF ok THEN [k \in DOMAIN db \cup {item.id} |-> IF k = item.id THEN item ELSE db[k]]
    ELSE db

(* _store_job: INSERT OR REPLACE of the whole job row *)
_store_job(db, job, ok) ==
    IF ok THEN [k \in DOMAIN db \cup {job.job_id} |->
                  IF k = job.job_id
                  THEN [status |-> job.status, total_items |-> job.total_items,
                        completed_items |-> job.completed_items,
                        failed_items |-> job.failed_items]
                  ELSE db[k]]
    ELSE db

(* _update_job_status: UPDATE ... WHERE job_id = ?, no effect without a row *)
_update_job_status(db, job, ok) ==
    IF ok /\ job.job_id \in DOMAIN db
    THEN [db EXCEPT ![job.job_id] =
            [@ EXCEPT !.status = job.status,
                      !.completed_items = job.completed_items,
                      !.failed_items = job.failed_items]]
    ELSE db

(* _generate_job_id: a fresh id for every call *)
_generate_job_id == Cardinality(DOMAIN jobs) + 1

(* get_job_status: the snapshot of a registered job, or None *)
get_job_status(job_id) ==
    IF job_id \in active_jobs
    THEN LET job == jobs[job_id]
         IN {[status |-> job.status, total_items |-> job.total_items,
             completed_items |-> job.completed_items,
             failed_items |-> job.failed_items,
             progress |-> IF job.total_items > 0
                          THEN <<job.completed_items + job.failed_items, job.total_items>>
                          ELSE <<0, 1>>]}
    ELSE None

----------------------------------------------------------------------------
(* The database is a file that accepts the statements, or one that rejects
   them all (db_path ":memory:" opens a new empty database on every
   connect, so every statement fails with "no such table"). *)
Init ==
    /\ now = 0
    /\ jobs = <<>>
    /\ active_jobs = {}
    /\ task = <<>>
    /\ db_jobs = <<>>
    /\ db_items = <<>>
    /\ db_up \in BOOLEAN
    /\ fetch_log = <<>>
    /\ last_stop = None
    /\ cleanup_call = [days |-> 0, seq |-> 0]
    /\ rating_results = <<>>
    /\ rating_history = <<>>
    /\ rating_call = [n |-> 0, item_id |-> None, item_data |-> None, evaluator |-> "",
                    returned |-> None]
    /\ reeval_call = [seq |-> 0, item_id |-> None, at |-> 0, returned |-> None]
    /\ summary_call = [seq |-> 0, returned |-> None]
    /\ sweep = [running |-> FALSE, cycle |-> None, rate_all |-> None]

Extend(f, k, v) == [x \in DOMAIN f \cup {k} |-> IF x = k THEN v ELSE f[x]]

NewJob_NoTotal(job_id, urls, delay, t) ==
    [job_id |-> job_id, urls |-> urls, delay_between_requests |-> delay,
     created_at |-> t, status |-> "pending", total_items |-> 0,
     completed_items |-> 0, failed_items |-> 0]

(* ScrapingJob(...) as start_scraping_job builds it *)
NewJob(job_id, urls, delay, t) ==
    [job_id |-> job_id, urls |-> urls, delay_between_requests |-> delay,
     created_at |-> t, status |-> "pending", total_items |-> Len(urls),
     completed_items |-> 0, failed_items |-> 0]

(* start_scraping_job: build the job, register it, store it, create the task *)
start_scraping_job(urls, delay, limit) ==
    /\ Cardinality(DOMAIN jobs) < limit
    /\ LET job_id == _generate_job_id
           job == NewJob(job_id, urls, delay, now)
       IN /\ jobs' = Extend(jobs, job_id, job)
          /\ active_jobs' = active_jobs \cup {job_id}
          /\ db_jobs' = _store_job(db_jobs, job, db_up)
          /\ task' = Extend(task, job_id, [pc |-> "created", i |-> 0, wake_at |-> 0])
          /\ fetch_log' = Extend(fetch_log, job_id, [c \in ResponseClasses |-> 0])
    /\ UNCHANGED <<now, db_items, db_up, apiVars, ratingVars>>

TaskBegin_StaysPending(j) ==
    /\ j \in DOMAIN task
    /\ task[j].pc = "created"
    /\ task' = [task EXCEPT ![j].pc = "loop"]
    /\ UNCHANGED <<now, jobs, active_jobs, db_jobs, db_items, db_up, fetch_log, apiVars, ratingVars>>

(* _execute_scraping_job, first statements: status becomes processing *)
TaskBegin(j) ==
    /\ j \in DOMAIN task
    /\ task[j].pc = "created"
    /\ jobs' = [jobs EXCEPT ![j].status = "processing"]
    /\ db_jobs' = _update_job_status(db_jobs, jobs'[j], db_up)
    /\ task' = [task EXCEPT ![j].pc = "loop"]
    /\ UNCHANGED <<now, active_jobs, db_items, db_up, fetch_log, apiVars, ratingVars>>

LoopNext_NoDelay(j) ==
    /\ j \in DOMAIN task
    /\ task[j].pc = "loop"
    /\ IF task[j].i < Len(jobs[j].urls)
       THEN /\ task' = [task EXCEPT ![j].pc = "fetching"]
            /\ UNCHANGED <<jobs, db_jobs>>
       ELSE /\ jobs' = [jobs EXCEPT ![j].status = "completed"]
            /\ db_jobs' = _update_job_status(db_jobs, jobs'[j], db_up)
            /\ task' = [task EXCEPT ![j].pc = "done"]
    /\ UNCHANGED <<now, active_jobs, db_items, db_up, fetch_log, apiVars, ratingVars>>

(* head of the for loop: the next URL (after the delay, except before the
   first URL), or the statements after the loop *)
LoopNext(j) ==
    /\ j \in DOMAIN task
    /\ task[j].pc = "loop"
    /\ LET job == jobs[j]
           i == task[j].i
       IN IF i < Len(job.urls)
          THEN /\ IF i > 0 /\ job.delay_between_requests > 0
                  THEN task' = [task EXCEPT ![j].pc = "sleeping",
                                            ![j].wake_at = now + job.delay_between_requests]
                  ELSE task' = [task EXCEPT ![j].pc = "fetching"]
               /\ UNCHANGED <<jobs, db_jobs>>
          ELSE /\ jobs' = [jobs EXCEPT ![j].status = "completed"]
               /\ db_jobs' = _update_job_status(db_jobs, jobs'[j], db_up)
               /\ task' = [task EXCEPT ![j].pc = "done"]
    /\ UNCHANGED <<now, active_jobs, db_items, db_up, fetch_log, apiVars, ratingVars>>

(* asyncio.sleep(delay) returns once the delay has elapsed *)
Wake(j) ==
    /\ j \in DOMAIN task
    /\ task[j].pc = "sleeping"
    /\ now >= task[j].wake_at
    /\ task' = [task EXCEPT ![j].pc = "fetching"]
    /\ UNCHANGED <<now, jobs, active_jobs, db_jobs, db_items, db_up, fetch_log, apiVars, ratingVars>>

CountOutcome_Twice(job, item) ==
    IF item # None
    THEN [job EXCEPT !.completed_items = @ + 1, !.failed_items = @ + 1]
    ELSE [job EXCEPT !.failed_items = @ + 1]

CountOutcome_DropFailure(job, item) ==
    IF item # None THEN [job EXCEPT !.completed_items = @ + 1] ELSE job

(* if item: completed_items += 1, else: failed_items += 1 *)
CountOutcome(job, item) ==
    IF item # None
    THEN [job EXCEPT !.completed_items = @ + 1]
    ELSE [job EXCEPT !.failed_items = @ + 1]

FetchReturn_FailedWhenNotStored(j, resp) ==
    /\ j \in DOMAIN task
    /\ task[j].pc = "fetching"
    /\ LET job == jobs[j]
           url == job.urls[task[j].i + 1]
           item == scrape_url(url, j, resp, now)
       IN /\ db_items' = IF item # None
                         THEN _store_scraped_item(db_items, CHOOSE x \in item : TRUE, db_up)
                         ELSE db_items
          /\ jobs' = [jobs EXCEPT ![j] = CountOutcome(job, IF db_up THEN item ELSE None)]
          /\ db_jobs' = _update_job_status(db_jobs, jobs'[j], db_up)
    /\ task' = [task EXCEPT ![j].pc = "loop", ![j].i = @ + 1]
    /\ fetch_log' = [fetch_log EXCEPT ![j][ResponseClass(resp)] = @ + 1]
    /\ UNCHANGED <<now, active_jobs, db_up, apiVars, ratingVars>>

FetchReturn_SharedCounters(j, resp) ==
    /\ j \in DOMAIN task
    /\ task[j].pc = "fetching"
    /\ LET job == jobs[j]
           url == job.urls[task[j].i + 1]
           item == scrape_url(url, j, resp, now)
       IN /\ db_items' = IF item # None
                         THEN _store_scraped_item(db_items, CHOOSE x \in item : TRUE, db_up)
                         ELSE db_items
          /\ jobs' = [k \in DOMAIN jobs |->
                        IF k = j \/ jobs[k].status = "processing"
                        THEN CountOutcome(jobs[k], item) ELSE jobs[k]]
          /\ db_jobs' = _update_job_status(db_jobs, jobs'[j], db_up)
    /\ task' = [task EXCEPT ![j].pc = "loop", ![j].i = @ + 1]
    /\ fetch_log' = [fetch_log EXCEPT ![j][ResponseClass(resp)] = @ + 1]
    /\ UNCHANGED <<now, active_jobs, db_up, apiVars, ratingVars>>

FetchReturn_AbortOnFailure(j, resp) ==
    /\ j \in DOMAIN task
    /\ task[j].pc = "fetching"
    /\ LET job == jobs[j]
           url == job.urls[task[j].i + 1]
           item == scrape_url(url, j, resp, now)
       IN /\ db_items' = IF item # None
                         THEN _store_scraped_item(db_items, CHOOSE x \in item : TRUE, db_up)
                         ELSE db_items
          /\ jobs' = IF item # None
                     THEN [jobs EXCEPT ![j] = CountOutcome(job, item)]
                     ELSE [jobs EXCEPT ![j] = [CountOutcome(job, item) EXCEPT !.status = "failed"]]
          /\ db_jobs' = _update_job_status(db_jobs, jobs'[j], db_up)
          /\ task' = IF item # None
                     THEN [task EXCEPT ![j].pc = "loop", ![j].i = @ + 1]
                     ELSE [task EXCEPT ![j].pc = "done", ![j].i = @ + 1]
    /\ fetch_log' = [fetch_log EXCEPT ![j][ResponseClass(resp)] = @ + 1]
    /\ UNCHANGED <<now, active_jobs, db_up, apiVars, ratingVars>>

(* the awaited scrape_url returns (the item was stored inside it); the URL
   is counted and the job row updated *)
FetchReturn(j, resp) ==
    /\ j \in DOMAIN task
    /\ task[j].pc = "fetching"
    /\ LET job == jobs[j]
           url == job.urls[task[j].i + 1]
           item == scrape_url(url, j, resp, now)
       IN /\ db_items' = IF item # None
                         THEN _store_scraped_item(db_items, CHOOSE x \in item : TRUE, db_up)
                         ELSE db_items
          /\ jobs' = [jobs EXCEPT ![j] = CountOutcome(job, item)]
          /\ db_jobs' = _update_job_status(db_jobs, jobs'[j], db_up)
    /\ task' = [task EXCEPT ![j].pc = "loop", ![j].i = @ + 1]
    /\ fetch_log' = [fetch_log EXCEPT ![j][ResponseClass(resp)] = @ + 1]
    /\ UNCHANGED <<now, active_jobs, db_up, apiVars, ratingVars>>

JobsToRemove_AnyStatus(days) ==
    LET cutoff_date == now - days * SecondsPerDay
    IN {j \in active_jobs : jobs[j].created_at < cutoff_date}

(* the jobs cleanup_old_jobs collects: finished and created before the cutoff *)
JobsToRemove(days) ==
    LET cutoff_date == now - days * SecondsPerDay
    IN {j \in active_jobs : /\ jobs[j].status \in {"completed", "failed"}
                            /\ jobs[j].created_at < cutoff_date}

(* cleanup_old_jobs: drop the collected jobs from the registry *)
cleanup_old_jobs(days) ==
    /\ active_jobs' = active_jobs \ JobsToRemove(days)
    /\ cleanup_call' = [days |-> days, seq |-> 1 - cleanup_call.seq]
    /\ UNCHANGED <<now, jobs, task, db_jobs, db_items, db_up, fetch_log, last_stop, sweep,
                   ratingVars>>

(* the methods class ScrapingService defines *)
ScrapingServiceMethods ==
    { "_initialize_database", "start_session", "close_session",
      "_generate_job_id", "_generate_item_id", "_extract_domain",
      "_calculate_content_hash", "_count_words", "_detect_language",
      "scrape_url", "_extract_content_by_strategy", "_store_scraped_item",
      "start_scraping_job", "_execute_scraping_job", "_store_job",
      "_update_job_status", "get_job_status", "get_all_jobs",
      "get_scraped_items", "get_scraping_statistics", "cleanup_old_jobs" }

(* POST /stop/{job_id}: the handler awaits scraping_service.stop_job(job_id);
   the service has no such method, the lookup raises AttributeError, and the
   handler's except Exception answers 500 *)
stop_scraping_job(job_id) ==
    /\ "stop_job" \notin ScrapingServiceMethods
    /\ last_stop' = {[job_id |-> job_id,
                      known |-> job_id \in active_jobs,
                      status |-> IF job_id \in active_jobs THEN jobs[job_id].status
                                 ELSE "unknown",
                      processed |-> IF job_id \in active_jobs
                                    THEN jobs[job_id].completed_items + jobs[job_id].failed_items
                                    ELSE 0,
                      returned |-> "AttributeError",
                      http_status |-> 500]}
    /\ UNCHANGED <<now, jobs, active_jobs, task, db_jobs, db_items, db_up, fetch_log,
                   cleanup_call, sweep, ratingVars>>

(* the clock advances by a second or by a day *)
Tick(d) ==
    /\ IF d = 1 THEN now % SecondsPerDay < MaxSecs
                ELSE now \div SecondsPerDay < MaxDays
    /\ now' = now + d
    /\ UNCHANGED <<jobs, active_jobs, task, db_jobs, db_items, db_up, fetch_log, apiVars, ratingVars>>

(* Jobs running side by side, with the clock advancing by seconds *)
Next ==
    \/ \E urls \in UrlLists, delay \in Delays : start_scraping_job(urls, delay, MaxJobs)
    \/ \E j \in JobIds : TaskBegin(j)
    \/ \E j \in JobIds : LoopNext(j)
    \/ \E j \in JobIds : Wake(j)
    \/ \E j \in JobIds, resp \in Responses : FetchReturn(j, resp)
    \/ Tick(1)

Spec == Init /\ [][Next]_vars

(* One job of three or of five URLs without delay, and the stop endpoint *)
NextSingle ==
    \/ \E urls \in {ScenarioAUrls, ScenarioDUrls} : start_scraping_job(urls, 0, 1)
    \/ TaskBegin(1)
    \/ LoopNext(1)
    \/ \E resp \in Responses : FetchReturn(1, resp)
    \/ \E job_id \in 1..2 : stop_scraping_job(job_id)

SpecSingle == Init /\ [][NextSingle]_vars

(* Jobs without delay, the clock advancing by days, and the cleanup *)
NextCleanup ==
    \/ \E urls \in UrlLists : start_scraping_job(urls, 0, MaxJobs)
    \/ \E j \in JobIds : TaskBegin(j)
    \/ \E j \in JobIds : LoopNext(j)
    \/ \E j \in JobIds, resp \in PlainResponses : FetchReturn(j, resp)
    \/ \E days \in CleanupDays : cleanup_old_jobs(days)
    \/ Tick(SecondsPerDay)

SpecCleanup == Init /\ [][NextCleanup]_vars

----------------------------------------------------------------------------
(* The rating engine.  A criterion score is counted in thousandths, a weight
   in hundredths, an overall score in units of 1/100000. *)

MaxRatings == 3

(* RatingConfig *)
source_credibility_weight == 25
content_completeness_weight == 25
ocr_accuracy_weight == 20
data_freshness_weight == 15
content_relevance_weight == 10
technical_quality_weight == 5
excellent_threshold == 80000
good_threshold == 60000
average_threshold == 40000
poor_threshold == 20000

(* the 0.01 of _update_item_rating *)
HistoryEpsilon == 1000

Min(a, b) == IF a < b THEN a ELSE b

Max(a, b) == IF a > b THEN a ELSE b

Abs(a) == IF a < 0 THEN 0 - a ELSE a

(* An item is described by what the evaluators measure on it: the tests on
   its domain and URL, and the counts their regular expressions find in its
   title and content. *)
Domain(credible, gov, edu) == [credible |-> credible, gov |-> gov, edu |-> edu]

Metadata(len, official_title) == [len |-> len, official_title |-> official_title]

(* a timestamp string: ISO with an offset, ISO without an offset, or not ISO *)
IsoAware(t) == [kind |-> "aware", time |-> t]

IsoNaive(t) == [kind |-> "naive", time |-> t]

NotIso == [kind |-> "garbage", time |-> 0]

(* a field of the dictionary that holds None (a NULL column, a missing value) *)
PyNone == [py_none |-> TRUE]

IsPyNone(value) == "py_none" \in DOMAIN value

(* a timestamp that is no string *)
NotAString == [kind |-> "none", time |-> 0]

_evaluate_source_credibility_NoAllowList(domain, url, metadata) ==
    Min((IF domain.gov THEN 300 ELSE 0)
        + (IF domain.edu THEN 200 ELSE 0)
        + (IF url.https THEN 100 ELSE 0)
        + (IF metadata.len > 0 /\ metadata.official_title THEN 200 ELSE 0), 1000)

(* '.gov.' in None and None.startswith raise, and the handler answers 0.0 *)
_evaluate_source_credibility(domain, url, metadata) ==
    IF IsPyNone(domain) \/ IsPyNone(url) THEN 0
    ELSE
    Min((IF domain.credible THEN 400 ELSE 0)
        + (IF domain.gov THEN 300 ELSE 0)
        + (IF domain.edu THEN 200 ELSE 0)
        + (IF url.https THEN 100 ELSE 0)
        + (IF metadata.len > 0 /\ metadata.official_title THEN 200 ELSE 0), 1000)

_evaluate_content_completeness_AnyWordCount(content, title, word_count) ==
    Min(300
        + (IF content.structure_words THEN 200 ELSE 0)
        + (IF content.legal_pattern_count >= 3 THEN 300
           ELSE IF content.legal_pattern_count >= 1 THEN 200 ELSE 0)
        + (IF content.quality_count >= 2 THEN 200 ELSE 0), 1000)

(* re.search(pattern, None) raises, and the handler answers 0.0 *)
_evaluate_content_completeness(content, title, word_count) ==
    IF IsPyNone(content) THEN 0
    ELSE
    Min((IF word_count >= 500 THEN 300
         ELSE IF word_count >= 200 THEN 200
         ELSE IF word_count >= 100 THEN 100 ELSE 0)
        + (IF content.structure_words THEN 200 ELSE 0)
        + (IF content.legal_pattern_count >= 3 THEN 300
           ELSE IF content.legal_pattern_count >= 1 THEN 200 ELSE 0)
        + (IF content.quality_count >= 2 THEN 200 ELSE 0), 1000)

_evaluate_ocr_accuracy_HalfOnFailure(content, language) ==
    IF IsPyNone(content) THEN 500
    ELSE
    LET total_chars == content.len
        mixed == content.persian_chars > 0 /\ content.english_chars > 0
        mostly_persian == 10 * content.persian_chars
                            > 7 * (content.persian_chars + content.english_chars)
        below_1_percent == total_chars = 0 \/ 100 * content.repeated_chars < total_chars
        below_5_percent == total_chars = 0 \/ 20 * content.repeated_chars < total_chars
    IN Min((IF mixed THEN (IF mostly_persian THEN 300 ELSE 100) ELSE 0)
           + (content.proper_sentences * 300) \div content.sentences
           + (IF below_1_percent THEN 200 ELSE IF below_5_percent THEN 100 ELSE 0)
           + (IF content.paragraph_breaks THEN 100 ELSE 0), 1000)

(* sentences is the length of re.split's result, at least 1; the quotient
   proper_sentences / sentences is cut to thousandths; len(None) raises, and
   the handler answers 0.0 *)
_evaluate_ocr_accuracy(content, language) ==
    IF IsPyNone(content) THEN 0
    ELSE
    LET total_chars == content.len
        mixed == content.persian_chars > 0 /\ content.english_chars > 0
        mostly_persian == 10 * content.persian_chars
                            > 7 * (content.persian_chars + content.english_chars)
        below_1_percent == total_chars = 0 \/ 100 * content.repeated_chars < total_chars
        below_5_percent == total_chars = 0 \/ 20 * content.repeated_chars < total_chars
    IN Min((IF mixed THEN (IF mostly_persian THEN 300 ELSE 100) ELSE 0)
           + (content.proper_sentences * 300) \div content.sentences
           + (IF below_1_percent THEN 200 ELSE IF below_5_percent THEN 100 ELSE 0)
           + (IF content.paragraph_breaks THEN 100 ELSE 0), 1000)

(* a string that does not parse is taken as the current time; subtracting a
   time without offset, or a value that is neither a string nor a time,
   from the current time raises, and the handler answers 0.5 *)
_evaluate_data_freshness(timestamp, metadata, current_time) ==
    IF timestamp.kind \in {"naive", "none"} THEN 500
    ELSE LET item_time == IF timestamp.kind = "aware" THEN timestamp.time ELSE current_time
             age_days == (current_time - item_time) \div SecondsPerDay
         IN IF age_days <= 30 THEN 1000
            ELSE IF age_days <= 90 THEN 800
            ELSE IF age_days <= 365 THEN 600
            ELSE IF age_days <= 1095 THEN 400
            ELSE 200

(* re.findall(pattern, None) and re.search(pattern, None) raise, and the
   handler answers 0.0 *)
_evaluate_content_relevance(content, title, strategy) ==
    IF IsPyNone(content) \/ IsPyNone(title) THEN 0
    ELSE
    Min((IF content.legal_terms >= 10 THEN 400
         ELSE IF content.legal_terms >= 5 THEN 300
         ELSE IF content.legal_terms >= 2 THEN 200
         ELSE IF content.legal_terms >= 1 THEN 100 ELSE 0)
        + (IF title.legal_pattern_count >= 1 THEN 300 ELSE 0)
        + (IF content.official_indicators >= 3 THEN 300
           ELSE IF content.official_indicators >= 1 THEN 100 ELSE 0), 1000)

(* re.search(pattern, None) raises, and the handler answers 0.0 *)
_evaluate_technical_quality(content, metadata) ==
    IF IsPyNone(content) THEN 0
    ELSE
    LET chars == Max(content.len, 1)
    IN Min((IF content.technical_words THEN 300 ELSE 0)
           + (IF content.double_newline THEN 200 ELSE 0)
           + (IF 10 * content.persian_chars >= 3 * chars
                 /\ 10 * content.persian_chars <= 9 * chars THEN 200 ELSE 0)
           + (IF metadata.len >= 3 THEN 100 ELSE 0)
           + (IF content.len >= 200 THEN 200 ELSE 0), 1000)

Criteria ==
    { "source_credibility", "content_completeness", "ocr_accuracy",
      "data_freshness", "content_relevance", "technical_quality" }

Weight_AllAsCredibility(c) == source_credibility_weight

Weight(c) ==
    CASE c = "source_credibility" -> source_credibility_weight
      [] c = "content_completeness" -> content_completeness_weight
      [] c = "ocr_accuracy" -> ocr_accuracy_weight
      [] c = "data_freshness" -> data_freshness_weight
      [] c = "content_relevance" -> content_relevance_weight
      [] c = "technical_quality" -> technical_quality_weight

RECURSIVE SumOver(_, _)
SumOver(f, S) ==
    IF S = {} THEN 0
    ELSE LET x == CHOOSE y \in S : TRUE
         IN f[x] + SumOver(f, S \ {x})

(* the largest r with r * r <= n *)
Sqrt(n) == CHOOSE r \in 0..1000 : r * r <= n /\ (r + 1) * (r + 1) > n

(* _calculate_confidence: 1 minus the standard deviation of the six scores,
   at least 0.5; in thousandths, the deviation cut to a whole thousandth *)
_calculate_confidence(criteria_scores) ==
    LET n == Cardinality(Criteria)
        total == SumOver(criteria_scores, Criteria)
        squares == SumOver([c \in Criteria |->
                              (n * criteria_scores[c] - total) * (n * criteria_scores[c] - total)],
                           Criteria)
        std_dev == Sqrt(squares \div (n * n * n))
    IN Max(500, 1000 - std_dev)

_determine_rating_level(overall_score) ==
    IF overall_score >= excellent_threshold THEN "excellent"
    ELSE IF overall_score >= good_threshold THEN "good"
    ELSE IF overall_score >= average_threshold THEN "average"
    ELSE IF overall_score >= poor_threshold THEN "poor"
    ELSE "unrated"

(* round(x, 3) of an overall score: to the nearest thousandth *)
Round3(x) == ((x + 50) \div 100) * 100

(* _store_rating_result: INSERT of one row; a failed write is logged and
   swallowed *)
_store_rating_result(results, rating_result, ok) ==
    IF ok THEN Append(results, rating_result) ELSE results

_update_item_rating_AnyChange(items, history, item_id, rating_score, ok, t) ==
    IF ~ok THEN [items |-> items, history |-> history]
    ELSE LET old_score == IF item_id \in DOMAIN items THEN items[item_id].rating_score ELSE 0
         IN [items |-> IF item_id \in DOMAIN items
                       THEN [items EXCEPT ![item_id].rating_score = rating_score,
                                          ![item_id].processing_status = "rated"]
                       ELSE items,
             history |-> IF old_score # rating_score
                         THEN Append(history,
                                     [item_id |-> item_id, old_score |-> old_score,
                                      new_score |-> rating_score,
                                      change_reason |-> "Auto re-evaluation",
                                      timestamp |-> t, evaluator |-> "auto"])
                         ELSE history]

(* _update_item_rating: one transaction that reads the stored score (0.0
   without a row), updates the row, and inserts a history row when the score
   moved by more than 0.01; a failure rolls it back and is swallowed *)
_update_item_rating(items, history, item_id, rating_score, ok, t) ==
    IF ~ok THEN [items |-> items, history |-> history]
    ELSE LET old_score == IF item_id \in DOMAIN items THEN items[item_id].rating_score ELSE 0
         IN [items |-> IF item_id \in DOMAIN items
                       THEN [items EXCEPT ![item_id].rating_score = rating_score,
                                          ![item_id].processing_status = "rated"]
                       ELSE items,
             history |-> IF Abs(old_score - rating_score) > HistoryEpsilon
                         THEN Append(history,
                                     [item_id |-> item_id, old_score |-> old_score,
                                      new_score |-> rating_score,
                                      change_reason |-> "Auto re-evaluation",
                                      timestamp |-> t, evaluator |-> "auto"])
                         ELSE history]

(* the six criterion scores of rate_item *)
CriteriaScores(item_data, t) ==
    [c \in Criteria |->
       CASE c = "source_credibility" ->
              _evaluate_source_credibility(item_data.domain, item_data.url, item_data.metadata)
         [] c = "content_completeness" ->
              _evaluate_content_completeness(item_data.content, item_data.title,
                                             item_data.word_count)
         [] c = "ocr_accuracy" ->
              _evaluate_ocr_accuracy(item_data.content, item_data.language)
         [] c = "data_freshness" ->
              _evaluate_data_freshness(item_data.timestamp, item_data.metadata, t)
         [] c = "content_relevance" ->
              _evaluate_content_relevance(item_data.content, item_data.title,
                                          item_data.strategy_used)
         [] c = "technical_quality" ->
              _evaluate_technical_quality(item_data.content, item_data.metadata)]

OverallScore_NoTechnical(criteria_scores) ==
    SumOver([c \in Criteria |-> criteria_scores[c] * Weight(c)],
            Criteria \ {"technical_quality"})

(* the weighted sum of rate_item *)
OverallScore(criteria_scores) ==
    SumOver([c \in Criteria |-> criteria_scores[c] * Weight(c)], Criteria)

(* what one rate_item call makes of the three tables, and what it returns:
   evaluate, build the RatingResult, store it, update the item row with the
   unrounded score *)
rate_item_effect(tables, item_data, evaluator, t, ok) ==
    LET item_id == item_data.id
        criteria_scores == CriteriaScores(item_data, t)
        overall_score == OverallScore(criteria_scores)
        rating_result ==
            [item_id |-> item_id,
             overall_score |-> Round3(overall_score),
             criteria_scores |-> criteria_scores,
             rating_level |-> _determine_rating_level(overall_score),
             confidence |-> _calculate_confidence(criteria_scores),
             timestamp |-> t,
             evaluator |-> evaluator]
        updated == _update_item_rating(tables.items, tables.history, item_id,
                                       overall_score, ok, t)
    IN [results |-> _store_rating_result(tables.results, rating_result, ok),
        items |-> updated.items,
        history |-> updated.history,
        returned |-> rating_result]

(* the body of rate_item, on the tables as they are *)
rate_item_body(item_data, evaluator) ==
    /\ rating_call.n < MaxRatings
    /\ LET done == rate_item_effect([results |-> rating_results, items |-> db_items,
                                     history |-> rating_history],
                                    item_data, evaluator, now, db_up)
       IN /\ rating_results' = done.results
          /\ db_items' = done.items
          /\ rating_history' = done.history
          /\ rating_call' = [n |-> rating_call.n + 1, item_id |-> {item_data.id},
                             item_data |-> {item_data},
                             evaluator |-> evaluator, returned |-> {done.returned}]

(* rate_item, called with a dictionary by the rating endpoints and by the
   background rating loop *)
rate_item(item_data, evaluator) ==
    /\ rate_item_body(item_data, evaluator)
    /\ UNCHANGED <<now, jobs, active_jobs, task, db_jobs, db_up, fetch_log, apiVars,
                   reeval_call, summary_call>>

(* What the evaluators measure on four contents: a page of legal text, the
   same page with a third metadata key, the same page with one official
   term, and a short page without any legal term *)
BaseContent ==
    [len |-> 1500, structure_words |-> TRUE, technical_words |-> TRUE,
     legal_pattern_count |-> 2, legal_terms |-> 3, quality_count |-> 1,
     official_indicators |-> 0, persian_chars |-> 900, english_chars |-> 300,
     repeated_chars |-> 0, sentences |-> 10, proper_sentences |-> 7,
     paragraph_breaks |-> TRUE, double_newline |-> TRUE]

BasePage ==
    [url |-> [https |-> TRUE], title |-> [legal_pattern_count |-> 1],
     content |-> BaseContent, metadata |-> Metadata(2, FALSE),
     domain |-> Domain(TRUE, FALSE, FALSE), word_count |-> 250,
     language |-> "persian", strategy_used |-> "general"]

MetadataPage == [BasePage EXCEPT !.metadata = Metadata(3, FALSE)]

OfficialPage == [BasePage EXCEPT !.content.official_indicators = 1]

ShortPage ==
    [url |-> [https |-> FALSE], title |-> [legal_pattern_count |-> 0],
     content |-> [len |-> 40, structure_words |-> FALSE, technical_words |-> FALSE,
                  legal_pattern_count |-> 0, legal_terms |-> 0, quality_count |-> 0,
                  official_indicators |-> 0, persian_chars |-> 0, english_chars |-> 30,
                  repeated_chars |-> 0, sentences |-> 1, proper_sentences |-> 1,
                  paragraph_breaks |-> FALSE, double_newline |-> FALSE],
     metadata |-> Metadata(0, FALSE),
     domain |-> Domain(FALSE, FALSE, FALSE), word_count |-> 10,
     language |-> "english", strategy_used |-> "general"]

Pages == {BasePage, MetadataPage, OfficialPage, ShortPage}

(* the dictionary handed to rate_item: id and timestamp of an item, and what
   a page measures *)
ItemData(id, timestamp, page) ==
    [id |-> id, timestamp |-> timestamp, url |-> page.url, title |-> page.title,
     content |-> page.content, metadata |-> page.metadata, domain |-> page.domain,
     word_count |-> page.word_count, language |-> page.language,
     strategy_used |-> page.strategy_used]

(* a row of scraped_items with the columns the rating reads back: title,
   content, metadata, word_count, language, strategy_used, domain *)
WithPage(row, page) ==
    [id |-> row.id, url |-> row.url, job_id |-> row.job_id, timestamp |-> row.timestamp,
     rating_score |-> row.rating_score, processing_status |-> row.processing_status,
     page |-> page]

(* The rows a database file holds when the services are constructed on it:
   one item scraped thirty days before, one scraped just now *)
StoredItems ==
    {WithPage(row, BasePage) :
        row \in scrape_url("u1", 1, Http(200, TRUE, 1200), 0 - 30 * SecondsPerDay)}
      \cup {WithPage(row, ShortPage) : row \in scrape_url("u2", 1, Http(200, TRUE, 1200), 0)}

(* an id without a row *)
MissingItemId == _generate_item_id("u3", 0)

ItemDatas ==
    {ItemData(row.id, IsoAware(row.timestamp), page) : row \in StoredItems, page \in Pages}
      \cup {ItemData(MissingItemId, IsoAware(0), BasePage)}

Evaluators == {"auto", "manual"}

InitRating ==
    /\ now = 0
    /\ jobs = <<>>
    /\ active_jobs = {}
    /\ task = <<>>
    /\ db_jobs = <<>>
    /\ db_items = [id \in {row.id : row \in StoredItems} |->
                     CHOOSE row \in StoredItems : row.id = id]
    /\ db_up \in BOOLEAN
    /\ fetch_log = <<>>
    /\ last_stop = None
    /\ cleanup_call = [days |-> 0, seq |-> 0]
    /\ rating_results = <<>>
    /\ rating_history = <<>>
    /\ rating_call = [n |-> 0, item_id |-> None, item_data |-> None, evaluator |-> "",
                    returned |-> None]
    /\ reeval_call = [seq |-> 0, item_id |-> None, at |-> 0, returned |-> None]
    /\ summary_call = [seq |-> 0, returned |-> None]
    /\ sweep = [running |-> FALSE, cycle |-> None, rate_all |-> None]

(* Ratings of stored items, with the clock advancing by days *)
NextRating ==
    \/ \E item_data \in ItemDatas, evaluator \in Evaluators : rate_item(item_data, evaluator)
    \/ Tick(SecondsPerDay)

SpecRating == InitRating /\ [][NextRating]_vars

ItemDataOfRow_ShortOnceRated(row) ==
    IF row.processing_status = "rated"
    THEN ItemData(row.id, IsoAware(row.timestamp), ShortPage)
    ELSE ItemData(row.id, IsoAware(row.timestamp), row.page)

(* the dictionary re_evaluate_item builds from the row it selected; the
   timestamp column holds the ISO string, with offset, that the scrape wrote *)
ItemDataOfRow(row) == ItemData(row.id, IsoAware(row.timestamp), row.page)

(* re_evaluate_item: select the row; None when there is none, and None when
   the select raises; otherwise rate_item on the row's fields *)
re_evaluate_item(item_id, evaluator) ==
    /\ IF db_up /\ item_id \in DOMAIN db_items
       THEN /\ rate_item_body(ItemDataOfRow(db_items[item_id]), evaluator)
            /\ reeval_call' = [seq |-> 1 - reeval_call.seq, item_id |-> {item_id},
                               at |-> now, returned |-> rating_call'.returned]
       ELSE /\ reeval_call' = [seq |-> 1 - reeval_call.seq, item_id |-> {item_id},
                               at |-> now, returned |-> None]
            /\ UNCHANGED <<rating_results, db_items, rating_history, rating_call>>
    /\ UNCHANGED <<now, jobs, active_jobs, task, db_jobs, db_up, fetch_log, apiVars,
                   summary_call>>

ItemIds == {row.id : row \in StoredItems} \cup {MissingItemId}

(* Re-evaluations of stored items, with the clock advancing by days *)
NextReeval ==
    \/ \E item_id \in ItemIds, evaluator \in Evaluators : re_evaluate_item(item_id, evaluator)
    \/ Tick(SecondsPerDay)

SpecReeval == InitRating /\ [][NextReeval]_vars

(* Scenario B, an item on an allow-listed government https domain with 600
   words and five legal-pattern matches: with every other bonus, with five
   matches of one pattern in plain English text, and with no other bonus *)
ScenarioBRich ==
    [url |-> [https |-> TRUE], title |-> [legal_pattern_count |-> 1],
     content |-> [len |-> 4000, structure_words |-> TRUE, technical_words |-> TRUE,
                  legal_pattern_count |-> 5, legal_terms |-> 5, quality_count |-> 2,
                  official_indicators |-> 3, persian_chars |-> 2800, english_chars |-> 400,
                  repeated_chars |-> 0, sentences |-> 40, proper_sentences |-> 40,
                  paragraph_breaks |-> TRUE, double_newline |-> TRUE],
     metadata |-> Metadata(3, TRUE),
     domain |-> Domain(TRUE, TRUE, FALSE), word_count |-> 600,
     language |-> "persian", strategy_used |-> "general"]

ScenarioBPlain ==
    [url |-> [https |-> TRUE], title |-> [legal_pattern_count |-> 0],
     content |-> [len |-> 4000, structure_words |-> FALSE, technical_words |-> FALSE,
                  legal_pattern_count |-> 1, legal_terms |-> 5, quality_count |-> 0,
                  official_indicators |-> 0, persian_chars |-> 0, english_chars |-> 3300,
                  repeated_chars |-> 0, sentences |-> 40, proper_sentences |-> 36,
                  paragraph_breaks |-> TRUE, double_newline |-> TRUE],
     metadata |-> Metadata(1, FALSE),
     domain |-> Domain(TRUE, TRUE, FALSE), word_count |-> 600,
     language |-> "english", strategy_used |-> "general"]

ScenarioBBare ==
    [ScenarioBPlain EXCEPT !.content.repeated_chars = 200,
                           !.content.proper_sentences = 0,
                           !.content.paragraph_breaks = FALSE,
                           !.content.double_newline = FALSE]

(* the same on the domain gov.ir itself, which is on the list, has no '.gov.'
   in it and does not end with '.gov.ir' *)
ScenarioBGovIr == [ScenarioBBare EXCEPT !.domain = Domain(TRUE, FALSE, FALSE)]

ScenarioBPages == {ScenarioBRich, ScenarioBPlain, ScenarioBBare, ScenarioBGovIr}

(* Scenario C, an item with 10 words, no pattern match, an unknown domain and
   an http URL: one English sentence (ShortPage), ten long, mostly Persian
   words with a paragraph break, and four fragments without a proper sentence *)
ScenarioCMixed ==
    [ShortPage EXCEPT !.content.len = 200, !.content.persian_chars = 150,
                      !.content.english_chars = 30,
                      !.content.paragraph_breaks = TRUE,
                      !.content.double_newline = TRUE,
                      !.metadata = Metadata(3, FALSE),
                      !.language = "persian"]

ScenarioCBare ==
    [ShortPage EXCEPT !.content.sentences = 4, !.content.proper_sentences = 0]

ScenarioCPages == {ShortPage, ScenarioCMixed, ScenarioCBare}

(* the page with one official term, 33 of its 50 sentences proper *)
UnevenSentencesPage ==
    [OfficialPage EXCEPT !.content.sentences = 50, !.content.proper_sentences = 33]

(* a page without any bonus: runs of repeated characters, no proper sentence *)
EmptyPage ==
    [ShortPage EXCEPT !.content.len = 20, !.content.english_chars = 0,
                      !.content.repeated_chars = 2, !.content.sentences = 3,
                      !.content.proper_sentences = 0, !.word_count = 0,
                      !.language = "unknown"]

(* timestamps of items captured now, 45 days, two years and four years ago *)
CapturedNow == IsoAware(0)

Captured45DaysAgo == IsoAware(0 - 45 * SecondsPerDay)

Captured2YearsAgo == IsoAware(0 - 730 * SecondsPerDay)

Captured4YearsAgo == IsoAware(0 - 1460 * SecondsPerDay)

(* the id of the item scraped just now *)
FreshItemId == _generate_item_id("u2", 0)

(* scenario B: the timestamp is the current time, with its UTC offset *)
ScenarioBItemDatas == {ItemData(FreshItemId, CapturedNow, page) : page \in ScenarioBPages}

(* scenario C says nothing of the timestamp: the current time, four years
   back, a time without offset, and a string that is no ISO time *)
ScenarioCItemDatas ==
    {ItemData(FreshItemId, timestamp, page) :
        timestamp \in {CapturedNow, Captured4YearsAgo, IsoNaive(0), NotIso},
        page \in ScenarioCPages}

(* the dictionaries rated in the scoring runs *)
ScoringItemDatas ==
    {ItemData(FreshItemId, CapturedNow, page) :
        page \in Pages \cup ScenarioBPages \cup ScenarioCPages
                   \cup {UnevenSentencesPage, EmptyPage}}
      \cup {ItemData(FreshItemId, IsoNaive(0), ScenarioBBare)}
      \cup ScenarioBItemDatas \cup ScenarioCItemDatas
      \cup {ItemData(FreshItemId, Captured45DaysAgo, BasePage),
            ItemData(FreshItemId, Captured2YearsAgo, UnevenSentencesPage),
            ItemData(FreshItemId, Captured4YearsAgo, ShortPage),
            ItemData(FreshItemId, Captured4YearsAgo, EmptyPage)}

(* Ratings of one stored item under the dictionaries above *)
NextScoring ==
    \E item_data \in ScoringItemDatas : rate_item(item_data, "auto")

SpecScoring == InitRating /\ [][NextScoring]_vars

(* the sum of f over the rows 1..n of a table *)
RECURSIVE SumRows(_, _)
SumRows(f, n) == IF n = 0 THEN 0 ELSE f[n] + SumRows(f, n - 1)

(* round(total / n, 3) for scores in units of 1/100000 (step: hundredths of
   a thousandth), and for confidences and criteria in thousandths (step 1) *)
RoundedMean(total, n, step) == ((2 * total + n * step) \div (2 * n * step)) * step

level_distribution_DistinctItems(results) ==
    [level \in {results[k].rating_level : k \in 1..Len(results)} |->
        Cardinality({results[k].item_id : k \in {i \in 1..Len(results) :
                                                   results[i].rating_level = level}})]

(* the count of the rows of rating_results grouped by rating_level, as a
   dictionary: one key per level that has a row *)
level_distribution(results) ==
    [level \in {results[k].rating_level : k \in 1..Len(results)} |->
        Cardinality({k \in 1..Len(results) : results[k].rating_level = level})]

(* the count of the rows WHERE timestamp > datetime('now', '-24 hours'): the
   column holds isoformat() text, '2024-01-02T10:00:00+00:00', and sqlite
   yields '2024-01-01 10:00:00'; the texts are compared as strings, so the
   dates decide and on equal dates 'T' is above ' ' *)
recent_ratings(results, t) ==
    Cardinality({k \in 1..Len(results) :
                   results[k].timestamp \div SecondsPerDay
                     >= (t - SecondsPerDay) \div SecondsPerDay})

(* the dictionary without keys *)
EmptyDict == [key \in {} |-> 0]

(* the dictionary get_rating_summary builds from the three aggregates *)
RatingSummary(results, t) ==
    LET n == Len(results)
        scores == [k \in 1..n |-> results[k].overall_score]
    IN [total_rated |-> n,
        average_score |->
            IF n = 0 THEN 0 ELSE RoundedMean(SumRows(scores, n), n, 100),
        score_range |->
            [min |-> IF n = 0 THEN 0
                     ELSE CHOOSE s \in {scores[k] : k \in 1..n} :
                            \A k \in 1..n : s <= scores[k],
             max |-> IF n = 0 THEN 0
                     ELSE CHOOSE s \in {scores[k] : k \in 1..n} :
                            \A k \in 1..n : s >= scores[k]],
        average_confidence |->
            IF n = 0 THEN 0
            ELSE RoundedMean(SumRows([k \in 1..n |-> results[k].confidence], n), n, 1),
        rating_level_distribution |-> level_distribution(results),
        criteria_averages |->
            IF n = 0 THEN EmptyDict
            ELSE [c \in Criteria |->
                    RoundedMean(SumRows([k \in 1..n |-> results[k].criteria_scores[c]], n),
                                n, 1)],
        recent_ratings_24h |-> recent_ratings(results, t)]

(* get_rating_summary: four SELECTs on rating_results and nothing else; any
   exception is logged and the empty dictionary returned *)
get_rating_summary ==
    /\ summary_call' = [seq |-> 1 - summary_call.seq,
                        returned |-> IF db_up THEN {RatingSummary(rating_results, now)}
                                     ELSE {EmptyDict}]
    /\ UNCHANGED <<now, jobs, active_jobs, task, db_jobs, db_items, db_up, fetch_log,
                   apiVars, rating_results, rating_history, rating_call, reeval_call>>

(* the dictionaries of the two stored items as they were scraped *)
SummaryItemDatas == {ItemDataOfRow(row) : row \in StoredItems}

(* Ratings of the stored items and summaries of them, a day apart or not *)
NextSummary ==
    \/ \E item_data \in SummaryItemDatas : rate_item(item_data, "auto")
    \/ get_rating_summary
    \/ Tick(SecondsPerDay)

SpecSummary == InitRating /\ [][NextSummary]_vars

(* Items an evaluator cannot compute on: the stored page with a field that
   holds None, and with a timestamp that is None or has no offset *)
NoDomainPage == [BasePage EXCEPT !.domain = PyNone]

NoUrlPage == [BasePage EXCEPT !.url = PyNone]

NoTitlePage == [BasePage EXCEPT !.title = PyNone]

NoContentPage == [BasePage EXCEPT !.content = PyNone]

FailingItemDatas ==
    {ItemData(FreshItemId, CapturedNow, page) :
        page \in {BasePage, NoDomainPage, NoUrlPage, NoTitlePage, NoContentPage}}
      \cup {ItemData(FreshItemId, timestamp, page) :
              timestamp \in {NotAString, IsoNaive(0)}, page \in {BasePage, NoContentPage}}

(* the criteria whose evaluator raises on a dictionary *)
FailingCriteria(item_data) ==
    (IF IsPyNone(item_data.domain) \/ IsPyNone(item_data.url)
     THEN {"source_credibility"} ELSE {})
      \cup (IF IsPyNone(item_data.content)
            THEN {"content_completeness", "ocr_accuracy", "content_relevance",
                  "technical_quality"}
            ELSE {})
      \cup (IF IsPyNone(item_data.title) THEN {"content_relevance"} ELSE {})
      \cup (IF item_data.timestamp.kind \in {"naive", "none"}
            THEN {"data_freshness"} ELSE {})

(* Ratings of dictionaries with unusable fields *)
NextFailing ==
    \E item_data \in FailingItemDatas, evaluator \in Evaluators :
        rate_item(item_data, evaluator)

SpecFailing == InitRating /\ [][NextFailing]_vars

(* the methods class RatingService defines *)
RatingServiceMethods ==
    { "_initialize_database", "_evaluate_source_credibility",
      "_evaluate_content_completeness", "_evaluate_ocr_accuracy",
      "_evaluate_data_freshness", "_evaluate_content_relevance",
      "_evaluate_technical_quality", "_calculate_confidence",
      "_determine_rating_level", "rate_item", "_store_rating_result",
      "_update_item_rating", "get_rating_summary", "get_item_rating_history",
      "re_evaluate_item", "get_low_quality_items" }

(* start_background_rating, up to its first await: return when the flag is
   set, set it otherwise *)
start_background_rating ==
    /\ ~sweep.running
    /\ sweep' = [sweep EXCEPT !.running = TRUE]
    /\ UNCHANGED <<now, jobs, active_jobs, task, db_jobs, db_items, db_up, fetch_log,
                   last_stop, cleanup_call, ratingVars>>

(* one turn of the while loop of start_background_rating: the loop asks
   rating_service.get_unrated_items(limit=50); the service has no such
   method, the lookup raises AttributeError, the except Exception of the loop
   logs it and sleeps a minute, and no item is rated *)
background_rating_cycle ==
    /\ sweep.running
    /\ "get_unrated_items" \notin RatingServiceMethods
    /\ sweep' = [sweep EXCEPT !.cycle = {[raised |-> "AttributeError", rated |-> 0, at |-> now]}]
    /\ UNCHANGED <<now, jobs, active_jobs, task, db_jobs, db_items, db_up, fetch_log,
                   last_stop, cleanup_call, ratingVars>>

(* the finally block of lifespan: background_rating_running = False *)
lifespan_shutdown ==
    /\ sweep.running
    /\ sweep' = [sweep EXCEPT !.running = FALSE]
    /\ UNCHANGED <<now, jobs, active_jobs, task, db_jobs, db_items, db_up, fetch_log,
                   last_stop, cleanup_call, ratingVars>>

(* get_scraped_items(limit=1000) filtered on rating_score == 0.0: the ids of
   the unrated rows, newest first; no row when the select raises *)
RECURSIVE NewestFirst(_)
NewestFirst(ids) ==
    IF ids = {} THEN <<>>
    ELSE LET newest == CHOOSE id \in ids :
                          \A other \in ids : db_items[id].timestamp >= db_items[other].timestamp
         IN <<newest>> \o NewestFirst(ids \ {newest})

unrated_items ==
    IF db_up THEN NewestFirst({id \in DOMAIN db_items : db_items[id].rating_score = 0})
    ELSE <<>>

(* the for loop of rate_all_unrated_items: rate_item on every listed item in
   turn, without a test between two items *)
RECURSIVE RateEach(_, _)
RateEach(tables, todo) ==
    IF todo = <<>> THEN tables
    ELSE LET item_data == ItemDataOfRow(db_items[Head(todo)])
             done == rate_item_effect(tables, item_data, "auto", now, db_up)
         IN RateEach([results |-> done.results, items |-> done.items,
                      history |-> done.history, calls |-> tables.calls + 1,
                      item_data |-> {item_data}, returned |-> {done.returned}],
                     Tail(todo))

(* POST /rating/rate-all: no coroutine it awaits suspends (the database calls
   are synchronous), so the handler runs from the select to the answer in
   one step *)
rate_all_unrated_items ==
    LET todo == unrated_items
        done == RateEach([results |-> rating_results, items |-> db_items,
                          history |-> rating_history, calls |-> 0,
                          item_data |-> rating_call.item_data,
                          returned |-> rating_call.returned], todo)
    IN /\ rating_call.n + Len(todo) <= MaxRatings
       /\ rating_results' = done.results
       /\ db_items' = done.items
       /\ rating_history' = done.history
       /\ rating_call' = IF todo = <<>> THEN rating_call
                         ELSE [n |-> rating_call.n + Len(todo),
                               item_id |-> {todo[Len(todo)]},
                               item_data |-> done.item_data,
                               evaluator |-> "auto", returned |-> done.returned]
       /\ sweep' = [sweep EXCEPT !.rate_all =
                      {[total_items |-> Len(todo), rated_count |-> done.calls,
                        failed_count |-> 0, running |-> sweep.running, at |-> now]}]
       /\ UNCHANGED <<now, jobs, active_jobs, task, db_jobs, db_up, fetch_log,
                      last_stop, cleanup_call, reeval_call, summary_call>>

(* The two sweeps, the flag, single ratings, and the clock advancing by days *)
NextSweep ==
    \/ start_background_rating
    \/ background_rating_cycle
    \/ lifespan_shutdown
    \/ rate_all_unrated_items
    \/ \E item_data \in SummaryItemDatas : rate_item(item_data, "manual")
    \/ Tick(SecondsPerDay)

SpecSweep == InitRating /\ [][NextSweep]_vars

----------------------------------------------------------------------------
(* Claims about the scraping jobs *)

Processed(j) == jobs[j].completed_items + jobs[j].failed_items

(* C1: for every job, in every state from start_scraping_job on, also
   between two steps of its background task, completed_items + failed_items
   is at most total_items, and total_items is the number of URLs the job was
   started with. *)
C1_CountersWithinTotal ==
    \A j \in DOMAIN jobs :
        /\ jobs[j].total_items = Len(jobs[j].urls)
        /\ Processed(j) <= jobs[j].total_items

C1_Witness ==
    \E j \in DOMAIN jobs :
        /\ task[j].pc = "fetching"
        /\ jobs[j].total_items = 2
        /\ Processed(j) = 1

(* C2: whenever a job's status is completed or failed, completed_items +
   failed_items equals total_items. *)
C2_TerminalCountersEqualTotal ==
    \A j \in DOMAIN jobs :
        jobs[j].status \in {"completed", "failed"}
            => Processed(j) = jobs[j].total_items

C2_Witness ==
    \E j \in DOMAIN jobs :
        /\ jobs[j].status = "completed"
        /\ jobs[j].completed_items = 1
        /\ jobs[j].failed_items = 1

(* C3: a job is pending when created; its status changes only from pending
   to processing, which happens when its task starts, and from processing to
   completed, failed or stopped; a completed, failed or stopped job keeps
   its status. *)
C3_StatusMoves ==
    [][\A j \in DOMAIN jobs' :
          IF j \in DOMAIN jobs
          THEN \/ jobs'[j].status = jobs[j].status
               \/ /\ jobs[j].status = "pending"
                  /\ jobs'[j].status = "processing"
                  /\ task[j].pc = "created"
                  /\ task'[j].pc = "loop"
               \/ /\ jobs[j].status = "processing"
                  /\ jobs'[j].status \in TerminalStatuses
          ELSE jobs'[j].status = "pending"]_vars

C3_Witness ==
    \E j \in DOMAIN jobs :
        /\ jobs[j].status = "completed"
        /\ task[j].pc = "done"
        /\ jobs[j].total_items = 2

(* C4 as stated: when a job reaches completed, completed_items is the number
   of its URLs answered with a 2xx status, HTML and at least 50 characters,
   and failed_items is the number of its other URLs. *)
C4_CountsByOutcome ==
    \A j \in DOMAIN jobs :
        jobs[j].status = "completed"
            => /\ jobs[j].completed_items
                    = fetch_log[j]["page_200"] + fetch_log[j]["page_2xx"]
               /\ jobs[j].failed_items
                    = fetch_log[j]["fetch_failed"] + fetch_log[j]["short"]

(* C4 amended: when a job reaches completed, completed_items is the number
   of its URLs answered with status 200, HTML and at least 50 characters,
   and failed_items is the number of its other URLs: no answer, a status
   other than 200 (another 2xx status too), not HTML, or fewer than 50
   characters. *)
C4_CountsByOutcome200 ==
    \A j \in DOMAIN jobs :
        jobs[j].status = "completed"
            => /\ jobs[j].completed_items = fetch_log[j]["page_200"]
               /\ jobs[j].failed_items
                    = fetch_log[j]["fetch_failed"] + fetch_log[j]["short"]
                      + fetch_log[j]["page_2xx"]

(* scenario A: a 404, a valid page and a page below 50 characters *)
C4_Witness ==
    \E j \in DOMAIN jobs :
        /\ jobs[j].status = "completed"
        /\ fetch_log[j] = [c \in ResponseClasses |->
                             IF c = "page_2xx" THEN 0 ELSE 1]
        /\ jobs[j].total_items = 3
        /\ jobs[j].completed_items = 1
        /\ jobs[j].failed_items = 2

(* C5: a URL that fails never ends the job: the task visits every URL of the
   list before it finishes, no job becomes failed, and a finished job, also
   one whose every URL failed, has status completed. *)
C5_FailuresIsolated ==
    \A j \in DOMAIN jobs :
        /\ jobs[j].status # "failed"
        /\ jobs[j].failed_items > 0 /\ task[j].i < Len(jobs[j].urls)
              => jobs[j].status = "processing" /\ task[j].pc # "done"
        /\ task[j].pc = "done"
              => jobs[j].status = "completed" /\ task[j].i = Len(jobs[j].urls)

C5_Witness ==
    \E j \in DOMAIN jobs :
        /\ task[j].pc = "done"
        /\ jobs[j].status = "completed"
        /\ jobs[j].total_items = 2
        /\ jobs[j].failed_items = 2

(* C6: when stop is invoked on a five-URL job after its first URL has been
   counted, the job ends with status stopped and with completed_items +
   failed_items below 5. *)
C6_StopScenarioD ==
    \A s \in last_stop : \A j \in DOMAIN jobs :
        ( /\ s.job_id = j
          /\ s.known
          /\ s.status = "processing"
          /\ s.processed = 1
          /\ jobs[j].total_items = 5
          /\ task[j].pc = "done" )
        => /\ jobs[j].status = "stopped"
           /\ Processed(j) < 5

(* a job has a stop flag and it is set *)
StopFlagSet(job) == "stop_requested" \in DOMAIN job /\ job.stop_requested

(* C7: stop_job returns false for an unknown job id and for a job in a
   terminal status; otherwise it returns true and the job's stop flag is
   set. *)
C7_StopJobContract ==
    \A s \in last_stop :
        IF ~s.known \/ s.status \in TerminalStatuses
        THEN s.returned = "False"
        ELSE s.returned = "True" /\ StopFlagSet(jobs[s.job_id])

(* C8: the step in which start_scraping_job registers a job leaves the job
   pending with total_items the number of URLs and both counters 0, visible
   through get_job_status, with its task created and not started and no
   item stored; a job is answered only while its own task is fetching. *)
C8_StartReturnsAtOnce ==
    [][/\ \A j \in DOMAIN jobs' \ DOMAIN jobs :
            /\ get_job_status(j)' # None
            /\ \A st \in get_job_status(j)' :
                  /\ st.status = "pending"
                  /\ st.total_items = Len(jobs'[j].urls)
                  /\ st.completed_items = 0
                  /\ st.failed_items = 0
            /\ task'[j].pc = "created"
            /\ fetch_log'[j] = [c \in ResponseClasses |-> 0]
            /\ db_items' = db_items
       /\ \A j \in DOMAIN jobs :
            fetch_log'[j] # fetch_log[j] \/ Processed(j)' # Processed(j)
                => task[j].pc = "fetching" /\ jobs[j].status = "processing"]_vars

C8_Witness ==
    \E j \in DOMAIN jobs :
        /\ task[j].pc = "created"
        /\ jobs[j].status = "pending"
        /\ jobs[j].total_items = 2
        /\ get_job_status(j) # None

(* C9: a cleanup_old_jobs(days) call removes from the registry exactly the
   jobs in a terminal status that were created before now - days, keeps
   every pending or processing job, and leaves the job rows and the item
   rows of the database as they were. *)
C9_CleanupExact ==
    [][cleanup_call' # cleanup_call
          => LET cutoff == now - cleanup_call'.days * SecondsPerDay
             IN /\ active_jobs' =
                      {j \in active_jobs :
                          ~(/\ jobs[j].status \in TerminalStatuses
                            /\ jobs[j].created_at < cutoff)}
                /\ \A j \in active_jobs :
                      jobs[j].status \in {"pending", "processing"}
                          => j \in active_jobs'
                /\ db_jobs' = db_jobs
                /\ db_items' = db_items]_vars

C9_Witness ==
    /\ cleanup_call.seq = 1
    /\ \E j \in DOMAIN jobs : j \notin active_jobs
    /\ \E j \in active_jobs : jobs[j].status = "processing"
    /\ db_items # <<>>

----------------------------------------------------------------------------
(* Claims about the rating engine *)

(* C10: a rate_item call on an item that has a stored score appends no
   history entry when the score stored after the call differs from the score
   stored before it by at most 0.01, and appends exactly one entry when they
   differ by more than 0.01; that entry is for the item, its old_score is the
   score stored before the call and its new_score the score stored after it.
   The earlier entries are kept as they are. *)
C10_HistoryEpsilon ==
    [][ (rating_call' # rating_call /\ rating_call'.item_id \subseteq DOMAIN db_items)
        => \A i \in rating_call'.item_id :
             LET old == db_items[i].rating_score
                 new == db_items'[i].rating_score
             IN IF Abs(new - old) <= HistoryEpsilon
                THEN rating_history' = rating_history
                ELSE /\ Len(rating_history') = Len(rating_history) + 1
                     /\ SubSeq(rating_history', 1, Len(rating_history)) = rating_history
                     /\ rating_history'[Len(rating_history')].item_id = i
                     /\ rating_history'[Len(rating_history')].old_score = old
                     /\ rating_history'[Len(rating_history')].new_score = new ]_vars

(* one item rated three times: the second rating moved the stored score by
   exactly 0.01 or less and left no entry, the third moved it by more and
   left one *)
C10_Witness ==
    /\ Len(rating_results) = 3
    /\ Len(rating_history) = 2
    /\ \A k \in 1..3 : rating_results[k].item_id = rating_results[1].item_id
    /\ rating_results[1].item_id \in DOMAIN db_items
    /\ rating_results[2].overall_score # rating_results[1].overall_score
    /\ Abs(rating_results[2].overall_score - rating_results[1].overall_score) <= HistoryEpsilon
    /\ rating_history[1].old_score = 0
    /\ rating_history[2].old_score = rating_results[2].overall_score
    /\ rating_history[2].new_score = db_items[rating_results[1].item_id].rating_score
    /\ Abs(rating_history[2].new_score - rating_history[2].old_score) > HistoryEpsilon

(* C11: every rate_item call that returns a result has appended exactly that
   one result to the stored results, which are otherwise kept as they were,
   and leaves the item's row with the new overall score (up to the rounding
   of the result to three decimals) and with status rated. *)
C11_RatingPersisted ==
    [][ (rating_call' # rating_call /\ rating_call'.returned # None)
        => \A i \in rating_call'.item_id, r \in rating_call'.returned :
             /\ r.item_id = i
             /\ rating_results' = Append(rating_results, r)
             /\ i \in DOMAIN db_items'
             /\ Abs(db_items'[i].rating_score - r.overall_score) <= 50
             /\ db_items'[i].processing_status = "rated" ]_vars

(* C12: a rate_item call made while the store rejects its statements returns
   no RatingResult. *)
C12_StoreFailurePropagates ==
    [][ (rating_call' # rating_call /\ ~db_up) => rating_call'.returned = None ]_vars

(* C13: when re_evaluate_item is called on the item of the call before it,
   and that call returned a result, the new call returns a result with the
   same overall score, the same rating level and the same confidence,
   whatever the first call wrote and however much time passed in between
   (the stored fields of an item are never rewritten between two calls). *)
C13_ReevaluationRepeats ==
    [][ (reeval_call' # reeval_call /\ reeval_call.returned # None
          /\ reeval_call'.item_id = reeval_call.item_id)
        => /\ reeval_call'.returned # None
           /\ \A a \in reeval_call.returned, b \in reeval_call'.returned :
                /\ b.overall_score = a.overall_score
                /\ b.rating_level = a.rating_level
                /\ b.confidence = a.confidence ]_vars

(* the data-freshness score of a stored item at a given time *)
FreshnessAt(item_id, t) ==
    _evaluate_data_freshness(IsoAware(db_items[item_id].timestamp),
                             db_items[item_id].page.metadata, t)

(* C13, amended: the same, for two calls at which the item's data-freshness
   score (a step function of its age in days) is the same. *)
C13_ReevaluationRepeatsAtSameAge ==
    [][ (reeval_call' # reeval_call /\ reeval_call.returned # None
          /\ reeval_call'.item_id = reeval_call.item_id
          /\ \A i \in reeval_call.item_id : FreshnessAt(i, reeval_call.at) = FreshnessAt(i, now))
        => /\ reeval_call'.returned # None
           /\ \A a \in reeval_call.returned, b \in reeval_call'.returned :
                /\ b.overall_score = a.overall_score
                /\ b.rating_level = a.rating_level
                /\ b.confidence = a.confidence ]_vars

(* an item re-evaluated twice, a day apart, with the first call's score in
   its row, and both calls returned the same score *)
C13_Witness ==
    /\ Len(rating_results) = 2
    /\ rating_results[1].item_id = rating_results[2].item_id
    /\ rating_results[1].timestamp < rating_results[2].timestamp
    /\ rating_results[1].overall_score = rating_results[2].overall_score
    /\ reeval_call.returned = {rating_results[2]}
    /\ db_items[rating_results[1].item_id].processing_status = "rated"

(* C14: a re_evaluate_item call returns None exactly when the item id has no
   row; a call that returns None leaves results, rows and history as they
   were; a call on an id that has a row returns what rate_item returns on the
   row's fields. *)
C14_NotFoundIffAbsent ==
    [][ reeval_call' # reeval_call
        => \A i \in reeval_call'.item_id :
             /\ (reeval_call'.returned = None) <=> (i \notin DOMAIN db_items)
             /\ reeval_call'.returned = None
                  => UNCHANGED <<rating_results, db_items, rating_history>>
             /\ i \in DOMAIN db_items
                  => /\ reeval_call'.returned = rating_call'.returned
                     /\ \A r \in reeval_call'.returned :
                          /\ r.item_id = i
                          /\ r.criteria_scores = CriteriaScores(ItemDataOfRow(db_items[i]), now) ]_vars

(* every RatingResult built so far: the stored ones and the returned one *)
AllResults == {rating_results[k] : k \in 1..Len(rating_results)} \cup rating_call.returned

(* C15: every RatingResult has its six criterion scores in [0,1], its overall
   score in [0,1] and its confidence in [0.5,1.0]. *)
C15_ScoresInRange ==
    \A r \in AllResults :
        /\ \A c \in Criteria : r.criteria_scores[c] >= 0 /\ r.criteria_scores[c] <= 1000
        /\ r.overall_score >= 0 /\ r.overall_score <= 100000
        /\ r.confidence >= 500 /\ r.confidence <= 1000

(* results at both ends: one with four criteria at 1.0 and an overall score
   above 0.95, one with five criteria at 0 *)
C15_Witness ==
    /\ \E r \in AllResults :
         /\ Cardinality({c \in Criteria : r.criteria_scores[c] = 1000}) = 4
         /\ r.overall_score > 95000
    /\ \E r \in AllResults :
         /\ Cardinality({c \in Criteria : r.criteria_scores[c] = 0}) = 5
         /\ r.confidence < 1000

(* the sum over the six criteria of the score a result stores for the
   criterion times the criterion's weight *)
WeightedSum(r) == SumOver([c \in Criteria |-> r.criteria_scores[c] * Weight(c)], Criteria)

(* C16: the six weights sum to 1.0, and the overall_score of every
   RatingResult equals the weighted sum of the criterion scores stored in it
   (a difference of 1e-6 is below one unit of the scores, so within 1e-6
   means equal). *)
C16_OverallIsWeightedSum ==
    /\ SumOver([c \in Criteria |-> Weight(c)], Criteria) = 100
    /\ \A r \in AllResults : r.overall_score = WeightedSum(r)

(* C16, amended: the same, with the overall_score within 0.001 of the
   weighted sum. *)
C16_OverallNearWeightedSum ==
    /\ SumOver([c \in Criteria |-> Weight(c)], Criteria) = 100
    /\ \A r \in AllResults : Abs(r.overall_score - WeightedSum(r)) <= 100

(* a result whose overall_score was moved by the rounding to three decimals *)
C16_Witness ==
    \E r \in AllResults :
        /\ r.overall_score # WeightedSum(r)
        /\ r.criteria_scores["technical_quality"] > 0

(* C17: the rating_level of every RatingResult is the threshold bucket of the
   overall_score that result holds. *)
C17_LevelIsBucketOfScore ==
    \A r \in AllResults : r.rating_level = _determine_rating_level(r.overall_score)

(* the total of the counts of a rating-level distribution *)
DistributionTotal(distribution) == SumOver(distribution, DOMAIN distribution)

(* C18: get_rating_summary leaves every stored item, RatingResult and history
   entry unchanged, and in the summary it returns total_rated is the number
   of persisted RatingResults and the counts of the rating-level distribution
   add up to total_rated. *)
C18_SummaryOnlyReads ==
    [][summary_call'.seq # summary_call.seq =>
         /\ UNCHANGED <<db_items, rating_results, rating_history, db_jobs>>
         /\ \A summary \in summary_call'.returned :
              "total_rated" \in DOMAIN summary =>
                 /\ summary.total_rated = Len(rating_results)
                 /\ DistributionTotal(summary.rating_level_distribution)
                      = summary.total_rated]_vars

(* a summary of three results, two of them of one item, on two levels *)
C18_Witness ==
    \E summary \in summary_call.returned :
        /\ "total_rated" \in DOMAIN summary
        /\ summary.total_rated = 3
        /\ Cardinality(DOMAIN summary.rating_level_distribution) = 2
        /\ Cardinality({rating_results[k].item_id : k \in 1..Len(rating_results)}) = 2

(* C19: an item on an allow-listed government https domain with 600 words,
   five legal-pattern matches and a timestamp equal to now is rated with
   overall_score >= 0.8 and rating_level excellent. *)
C19_ScenarioBExcellent ==
    \A item_data \in rating_call.item_data \cap ScenarioBItemDatas :
        \A r \in rating_call.returned :
            r.overall_score >= 80000 /\ r.rating_level = "excellent"

(* C19, amended: such an item is rated with overall_score >= 0.44 and
   rating_level average, good or excellent. *)
C19_ScenarioBAtLeastAverage ==
    \A item_data \in rating_call.item_data \cap ScenarioBItemDatas :
        \A r \in rating_call.returned :
            /\ r.overall_score >= 44000
            /\ r.rating_level \in {"average", "good", "excellent"}

(* a scenario B item rated 0.44, average, after one rated excellent *)
C19_Witness ==
    /\ rating_call.item_data \cap ScenarioBItemDatas # {}
    /\ \E r \in rating_call.returned :
          r.overall_score = 44000 /\ r.rating_level = "average"
    /\ \E k \in 1..Len(rating_results) : rating_results[k].rating_level = "excellent"

(* C20: an item with 10 words, zero pattern matches, an unknown domain and an
   http URL is rated with overall_score < 0.2 and rating_level unrated. *)
C20_ScenarioCUnrated ==
    \A item_data \in rating_call.item_data \cap ScenarioCItemDatas :
        \A r \in rating_call.returned :
            r.overall_score < 20000 /\ r.rating_level = "unrated"

(* C20, amended: such an item is rated with overall_score < 0.4 and
   rating_level unrated or poor. *)
C20_ScenarioCAtMostPoor ==
    \A item_data \in rating_call.item_data \cap ScenarioCItemDatas :
        \A r \in rating_call.returned :
            /\ r.overall_score < 40000
            /\ r.rating_level \in {"unrated", "poor"}

(* a scenario C item rated poor after one rated unrated *)
C20_Witness ==
    /\ rating_call.item_data \cap ScenarioCItemDatas # {}
    /\ \E r \in rating_call.returned :
          r.overall_score >= 36000 /\ r.rating_level = "poor"
    /\ \E k \in 1..Len(rating_results) :
          /\ rating_results[k].rating_level = "unrated"
          /\ rating_results[k].criteria_scores["source_credibility"] = 0

(* C21: within one job the URLs are fetched in list order, one at a time:
   the index of the loop moves by one exactly when an outcome is counted, a
   fetch starts only when every earlier URL has been counted, the item a
   fetch stores is that of the URL at the loop's index, and before every URL
   but the first a positive delay is slept, from the head of the loop until
   the clock has reached now + delay. *)
C21_UrlsInOrderOneAtATime ==
    [][\A j \in DOMAIN task :
         LET job == jobs[j]
             i == task[j].i
         IN /\ task'[j].i \in {i, i + 1}
            /\ jobs'[j].completed_items + jobs'[j].failed_items = task'[j].i
            /\ (task'[j].i = i + 1) => task[j].pc = "fetching"
            /\ (task'[j].pc = "fetching" /\ task[j].pc # "fetching") =>
                  /\ task'[j].i = i /\ Processed(j) = i /\ i < Len(job.urls)
                  /\ IF i > 0 /\ job.delay_between_requests > 0
                     THEN task[j].pc = "sleeping" /\ now >= task[j].wake_at
                     ELSE task[j].pc = "loop"
            /\ (task'[j].pc = "sleeping" /\ task[j].pc # "sleeping") =>
                  /\ task[j].pc = "loop"
                  /\ task'[j].wake_at = now + job.delay_between_requests
            /\ (db_up /\ jobs'[j].completed_items > job.completed_items) =>
                  \E id \in DOMAIN db_items' :
                     /\ db_items'[id].job_id = j
                     /\ db_items'[id].url = job.urls[i + 1]
                     /\ db_items'[id].timestamp = now
       ]_vars

(* the second URL of a job with a delay is being fetched, a second after the
   first was counted *)
C21_Witness ==
    \E j \in DOMAIN task :
        /\ task[j].pc = "fetching" /\ task[j].i = 1
        /\ jobs[j].delay_between_requests = 1
        /\ now >= task[j].wake_at /\ task[j].wake_at = 1
        /\ Processed(j) = 1

(* C22: with several jobs running, the status and counters of a job change
   only in a step of that job's own task, a step of one task leaves every
   other job, task and stored job row as they were, and a job whose task has
   ended is completed with the counters its own answers give: one completed
   item per page answered with 200, one failed item per other answer. *)
C22_JobsIsolated ==
    [][\A j \in DOMAIN jobs :
         /\ (jobs'[j] # jobs[j]) =>
               /\ task'[j] # task[j]
               /\ \A k \in DOMAIN jobs \ {j} :
                     /\ jobs'[k] = jobs[k]
                     /\ task'[k] = task[k]
                     /\ fetch_log'[k] = fetch_log[k]
                     /\ (k \in DOMAIN db_jobs => db_jobs'[k] = db_jobs[k])
         /\ (task'[j].pc = "done") =>
               /\ jobs'[j].status = "completed"
               /\ jobs'[j].completed_items = fetch_log'[j]["page_200"]
               /\ jobs'[j].failed_items =
                     fetch_log'[j]["fetch_failed"] + fetch_log'[j]["short"]
                       + fetch_log'[j]["page_2xx"]
               /\ jobs'[j].completed_items + jobs'[j].failed_items = jobs'[j].total_items
       ]_vars

(* two jobs, each of two URLs, have both ended, with different counters *)
C22_Witness ==
    /\ DOMAIN jobs = {1, 2}
    /\ task[1].pc = "done" /\ task[2].pc = "done"
    /\ jobs[1].total_items = 2 /\ jobs[2].total_items = 2
    /\ jobs[1].completed_items = 2 /\ jobs[2].completed_items = 1
    /\ jobs[2].failed_items = 1

(* C23: when the store rejects the write of a scraped item, the item is not
   stored, and the job goes on as if it had been: the URL is counted as
   completed, no counter is taken back, the status stays processing and the
   task is at the head of the loop for the next URL. *)
C23_StoreFailureStillCounted ==
    [][\A j \in DOMAIN task :
         (/\ ~db_up
          /\ task[j].pc = "fetching"
          /\ fetch_log'[j]["page_200"] = fetch_log[j]["page_200"] + 1) =>
            /\ db_items' = db_items
            /\ jobs'[j].completed_items = jobs[j].completed_items + 1
            /\ jobs'[j].failed_items = jobs[j].failed_items
            /\ jobs'[j].status = "processing"
            /\ task'[j].pc = "loop"
            /\ task'[j].i = task[j].i + 1
       ]_vars

(* a job of two URLs completed with both counted and nothing stored *)
C23_Witness ==
    /\ ~db_up
    /\ db_items = <<>>
    /\ \E j \in DOMAIN jobs :
          /\ jobs[j].status = "completed"
          /\ jobs[j].completed_items = 2
          /\ jobs[j].failed_items = 0

(* C24: when an evaluator cannot compute its value on the item, rate_item
   still returns a RatingResult with all six criterion scores, and the score
   of that criterion is 0; for each of the six evaluators. *)
C24_FailedCriterionIsZero ==
    \A item_data \in rating_call.item_data :
        /\ rating_call.returned # None
        /\ \A r \in rating_call.returned :
              /\ DOMAIN r.criteria_scores = Criteria
              /\ \A c \in FailingCriteria(item_data) : r.criteria_scores[c] = 0

(* C24, amended: the same, with the score 0 for five of the criteria and 0.5
   for data freshness. *)
C24_FailedCriterionIsDefault ==
    \A item_data \in rating_call.item_data :
        /\ rating_call.returned # None
        /\ \A r \in rating_call.returned :
              /\ DOMAIN r.criteria_scores = Criteria
              /\ \A c \in FailingCriteria(item_data) :
                    r.criteria_scores[c] = IF c = "data_freshness" THEN 500 ELSE 0
              /\ r.overall_score = Round3(OverallScore(r.criteria_scores))

(* an item without content and without a usable timestamp was rated: five
   evaluators failed, and the result is 0.25 * 0.5 + 0.15 * 0.5 *)
C24_Witness ==
    \E item_data \in rating_call.item_data, r \in rating_call.returned :
        /\ Cardinality(FailingCriteria(item_data)) = 5
        /\ r.criteria_scores["source_credibility"] = 500
        /\ r.overall_score = 20000

(* C25: the data-freshness score of every rated item is the step of its age
   in days (up to 30 days 1.0, up to 90 days 0.8, up to 365 days 0.6, up to
   1095 days 0.4, above 0.2) when its timestamp is an ISO time, and 0.5 when
   its timestamp cannot be parsed. *)
C25_FreshnessStepOfAge ==
    \A item_data \in rating_call.item_data, r \in rating_call.returned :
        LET timestamp == item_data.timestamp
            age_days == (r.timestamp - timestamp.time) \div SecondsPerDay
        IN r.criteria_scores["data_freshness"] =
              IF timestamp.kind \in {"aware", "naive"}
              THEN (IF age_days <= 30 THEN 1000
                    ELSE IF age_days <= 90 THEN 800
                    ELSE IF age_days <= 365 THEN 600
                    ELSE IF age_days <= 1095 THEN 400
                    ELSE 200)
              ELSE 500

(* C26: the history entry a rate_item call appends carries the evaluator
   that was passed to that call. *)
C26_HistoryCarriesEvaluator ==
    [][Len(rating_history') > Len(rating_history) =>
          rating_history'[Len(rating_history')].evaluator = rating_call'.evaluator]_vars

(* C27: a bulk rating sweep rates an item only while its stop condition is
   not set: no sweep writes a RatingResult in a step taken with the flag
   background_rating_running cleared. *)
C27_SweepHaltsOnStop ==
    [][\A call \in sweep'.rate_all :
          (sweep'.rate_all # sweep.rate_all /\ call.rated_count > 0) => sweep.running]_vars

(* the stored items that carry the id of a job *)
ItemsOfJob(j) == {id \in DOMAIN db_items : db_items[id].job_id = j}

(* C28: while the store accepts every write, the number of stored items that
   carry a job's id is that job's completed_items. *)
C28_OneItemPerSuccess ==
    db_up => \A j \in DOMAIN jobs : Cardinality(ItemsOfJob(j)) = jobs[j].completed_items

(* C29: the progress get_job_status reports, a fraction <<numerator,
   denominator>>, is (completed + failed) / total, lies within [0,1], never
   decreases from one step to the next, and is 1 whenever the status is
   completed. *)
C29_ProgressReachesOne ==
    [][\A j \in active_jobs' : \A after \in get_job_status(j)' :
          /\ after.progress[2] > 0
          /\ after.progress[1] * after.total_items
               = (after.completed_items + after.failed_items) * after.progress[2]
          /\ 0 <= after.progress[1] /\ after.progress[1] <= after.progress[2]
          /\ after.status = "completed" => after.progress[1] = after.progress[2]
          /\ \A before \in get_job_status(j) :
                before.progress[1] * after.progress[2]
                  <= after.progress[1] * before.progress[2]]_vars

(* C30: a rate_item call appends a history entry only when the item has a
   stored row and the rating_score of that row changed in the call. *)
C30_HistoryOnlyOnStoredChange ==
    [][Len(rating_history') > Len(rating_history) =>
          \A item_id \in rating_call'.item_id :
             /\ item_id \in DOMAIN db_items
             /\ db_items'[item_id].rating_score # db_items[item_id].rating_score]_vars

====
